---- MODULE Spec2Model ----
(***************************************************************************)
(* Booking gateway of HozanFttah/meeting-room: the express handlers of     *)
(* src/server.js (specification Spec) and of the earlier server kept in    *)
(* src/unnamed/part_000 (specification SpecEarly), which has no            *)
(* authenticate middleware and no ownership lookup before a delete.  Both  *)
(* run against one bookings table (rows) and one identity provider.        *)
(*                                                                         *)
(* Every await of a handler ends a step: the store applies an upsert, a    *)
(* select or a delete some time after the handler issued it, and the       *)
(* steps of other requests run in between.  The store and the provider     *)
(* are the environment: any store call may fail (fault), a provider call   *)
(* may resolve or reject, and the clock read by Date.now() moves on by     *)
(* itself.                                                                 *)
(*                                                                         *)
(* Strings whose characters the code looks at (dates, times, titles,       *)
(* e-mails) are sequences of one-character strings.                        *)
(***************************************************************************)
EXTENDS Integers, Sequences, FiniteSets, TLC

VARIABLES rows, now, req, resp

vars == <<rows, now, req, resp>>

\* ------------------------------------------------------------------ bounds
MaxReq == 2      \* requests in flight at once
MaxBatch == 2    \* elements of one POST body
MaxClock == 2    \* values Date.now() takes during a run

\* ----------------------------------------------------------------- strings
Digit == {"0", "1", "2", "3", "4", "5", "6", "7", "8", "9"}

Undefined == <<"undefined">>     \* the JS value undefined (a missing field)
UndefinedStr == <<"u", "n", "d", "e", "f", "i", "n", "e", "d">>
UnknownUserStr == <<"U", "n", "k", "n", "o", "w", "n", " ", "U", "s", "e", "r">>
UnknownStr == <<"U", "n", "k", "n", "o", "w", "n">>

D1 == <<"2", "0", "2", "4", "-", "0", "1", "-", "0", "5">>
D2 == <<"2", "0", "2", "4", "-", "0", "1", "-", "0", "6">>
BadDate == <<"2", "0", "2", "4", "-", "1", "-", "5">>
T0900 == <<"0", "9", ":", "0", "0">>
T0915 == <<"0", "9", ":", "1", "5">>
BadTime == <<"9", ":", "0", "0">>
TA == <<"A">>
TB == <<"B">>
EmptyStr == <<>>

\* String(v) as RegExp.prototype.test applies it to its argument
ToStr(v) == IF v = Undefined THEN UndefinedStr ELSE v

\* a JS value used as a condition; of the values modelled, undefined and ''
\* are the falsy ones
Truthy(v) == v # Undefined /\ v # EmptyStr

\* /^\d{4}-\d{2}-\d{2}$/.test(v)
IsDate(v) ==
  LET s == ToStr(v)
  IN /\ Len(s) = 10
     /\ \A i \in {1, 2, 3, 4, 6, 7, 9, 10} : s[i] \in Digit
     /\ s[5] = "-"
     /\ s[8] = "-"

\* /^\d{2}:\d{2}$/.test(v)
IsTime(v) ==
  LET s == ToStr(v)
  IN /\ Len(s) = 5
     /\ \A i \in {1, 2, 4, 5} : s[i] \in Digit
     /\ s[3] = ":"

\* s.split('@')[0]: the characters before the first '@', all of s without one
RECURSIVE LocalPart(_)
LocalPart(s) ==
  IF s = <<>> \/ Head(s) = "@" THEN <<>> ELSE <<Head(s)>> \o LocalPart(Tail(s))

\* ------------------------------------------------------- identity provider
Users == {"u1", "u2"}
NoUser == "none"
NoHeader == "noheader"
Headers == {NoHeader, "t1", "t2", "bad"}    \* the token of an Authorization header

\* the user a bearer token belongs to; NoUser for a token the provider rejects
TokenUser(h) == IF h = "t1" THEN "u1" ELSE IF h = "t2" THEN "u2" ELSE NoUser

Email(u) == IF u = "u1" THEN <<"a", "@", "x">> ELSE <<"b", "c", "@", "y">>

\* supabase.auth.getUser either resolves (to a user or to an error) or rejects
Provider == {"resolve", "throw"}

\* ------------------------------------------------------------ request data
\* The elements a POST body is built from.  Null is the JSON value null; every
\* other element is an object.  id 0 stands for an id the code treats as absent
\* (undefined and 0 are both falsy in event.id || Date.now()); userId is an
\* owner the client put into the element itself.
Null == [null |-> TRUE]

Ev(id, title, date, startTime, endTime, userId) ==
  [id |-> id, title |-> title, date |-> date, startTime |-> startTime,
   endTime |-> endTime, userId |-> userId]

ValidEvents ==
  { Ev(0, TA, D2, T0900, T0915, NoUser),
    Ev(0, TB, D1, T0900, T0915, "u2"),
    Ev(1, TA, D1, T0900, T0915, "u1") }

InvalidEvents ==
  { Null,
    Ev(1, Undefined, D1, T0900, T0915, NoUser),
    Ev(0, TA, BadDate, T0900, T0915, NoUser),
    Ev(1, TB, D1, BadTime, T0915, NoUser),
    Ev(1, TB, D1, T0900, Undefined, NoUser) }

Events == ValidEvents \cup InvalidEvents

RECURSIVE SeqsUpTo(_, _)
SeqsUpTo(S, n) ==
  IF n = 0 THEN {<<>>}
  ELSE LET shorter == SeqsUpTo(S, n - 1)
       IN shorter \cup {Append(s, e) : s \in {t \in shorter : Len(t) = n - 1}, e \in S}

\* the request bodies that are arrays
Arrays == SeqsUpTo(Events, MaxBatch)

ClientIds == {1}
Ids == ClientIds \cup (1 .. MaxClock)

\* --------------------------------------------------------------- validation
\* The callback of req.body.every: reading event.title of null raises a
\* TypeError; otherwise the conjunction of the four tests.
EventTest(event) ==
  IF event = Null THEN "throws"
  ELSE IF /\ Truthy(event.title)
          /\ IsDate(event.date)
          /\ IsTime(event.startTime)
          /\ IsTime(event.endTime)
       THEN "true"
       ELSE "false"

\* Array.prototype.every: left to right, stopping at the first element whose
\* test is false, and propagating what the callback throws.
RECURSIVE Every(_)
Every(body) ==
  IF body = <<>> THEN "true"
  ELSE LET t == EventTest(Head(body))
       IN IF t = "true" THEN Every(Tail(body)) ELSE t

\* --------------------------------------------------------------- the store
\* One row of the bookings table.
Row(title, date, start, end, user) ==
  [title |-> title, date |-> date, start_time |-> start, end_time |-> end,
   user_id |-> user]

\* req.body.map(event => ({...})): stamps[i] is what Date.now() returned when
\* element i was mapped.
SupabaseData(body, user, stamps) ==
  [i \in 1 .. Len(body) |->
     [id |-> IF body[i].id # 0 THEN body[i].id ELSE stamps[i],
      row |-> Row(body[i].title, body[i].date, body[i].startTime,
                  body[i].endTime, user)]]

\* Upsert as it would be with ignoreDuplicates: a row whose id is taken is
\* left as it is
RECURSIVE UpsertIgnoreDuplicates(_, _)
UpsertIgnoreDuplicates(table, data) ==
  IF data = <<>> THEN table
  ELSE LET d == Head(data)
           t == [i \in DOMAIN table \cup {d.id} |->
                   IF i \in DOMAIN table THEN table[i] ELSE d.row]
       IN UpsertIgnoreDuplicates(t, Tail(data))

\* insert-or-replace by id, one element after the other
RECURSIVE Upsert(_, _)
Upsert(table, data) ==
  IF data = <<>> THEN table
  ELSE LET d == Head(data)
           t == [i \in DOMAIN table \cup {d.id} |->
                   IF i = d.id THEN d.row ELSE table[i]]
       IN Upsert(t, Tail(data))

HasDuplicateId(data) ==
  \E i, j \in 1 .. Len(data) : i < j /\ data[i].id = data[j].id

\* .delete().eq('id', id)
DeleteRow(table, id) == [i \in DOMAIN table \ {id} |-> table[i]]

\* .select('user_id').eq('id', id).single(): single() answers with an error,
\* and no data, unless the query yields exactly one row.
Single(table, id, fault) ==
  IF fault \/ id \notin DOMAIN table
  THEN [data |-> Null, error |-> TRUE]
  ELSE [data |-> [user_id |-> table[id].user_id], error |-> FALSE]

\* ---------------------------------------------------------------- listing
DigitSeq == <<"0", "1", "2", "3", "4", "5", "6", "7", "8", "9">>
DigitVal(c) == (CHOOSE n \in 1 .. 10 : DigitSeq[n] = c) - 1

\* the position of a stored date in the order .order('date') sorts by
RECURSIVE DateNum(_)
DateNum(d) ==
  IF d = <<>> THEN 0
  ELSE LET c == d[Len(d)]
           rest == DateNum(SubSeq(d, 1, Len(d) - 1))
       IN IF c \in Digit THEN 10 * rest + DigitVal(c) ELSE rest

\* what select(...).order('date', {ascending: true}) can return: the rows of
\* the table in ascending date order, rows of one date in whatever order the
\* store picks
Selections(table) ==
  LET n == Cardinality(DOMAIN table)
  IN { o \in [1 .. n -> DOMAIN table] :
         /\ \A i, j \in 1 .. n : i # j => o[i] # o[j]
         /\ \A i, j \in 1 .. n :
              i < j => DateNum(table[o[i]].date) <= DateNum(table[o[j]].date) }

\* supabase.auth.admin.getUserById: a user, an error, neither, or a rejection
Lookup == {"ok", "error", "nouser", "throws"}

\* the userEmails object after the loop over the distinct user ids: a key is
\* set to the user's e-mail when the lookup gave a user, to 'Unknown User'
\* when it threw, and is left unset otherwise
UserEmails(userIds, outcome) ==
  [u \in {v \in userIds : outcome[v] \in {"ok", "throws"}} |->
     IF outcome[u] = "ok" THEN Email(u) ELSE UnknownUserStr]

\* bookings.map(item => ({...}))
Transform(table, order, userEmails) ==
  [i \in 1 .. Len(order) |->
     LET item == table[order[i]]
         known == item.user_id \in DOMAIN userEmails
                  /\ Truthy(userEmails[item.user_id])
     IN [id |-> order[i],
         title |-> item.title,
         date |-> item.date,
         startTime |-> item.start_time,
         endTime |-> item.end_time,
         userId |-> item.user_id,
         userEmail |-> IF known THEN userEmails[item.user_id] ELSE UnknownUserStr,
         userName |-> IF known THEN LocalPart(userEmails[item.user_id])
                      ELSE UnknownStr]]

\* ----------------------------------------------------------- authentication
\* What a request presents, whatever the handler does with it: no
\* Authorization header, a token the provider call fails on, a token the
\* provider resolves to no user, or a token of a user.
Credentials(hdr, prov) ==
  IF hdr = NoHeader THEN "missing"
  ELSE IF prov = "throw" THEN "failing"
  ELSE IF TokenUser(hdr) = NoUser THEN "unresolved"
  ELSE "valid"

\* the authenticate middleware: next() with req.user set, or a response
authenticate(hdr, prov) ==
  IF hdr = NoHeader THEN [ok |-> FALSE, status |-> 401]
  ELSE IF prov = "throw" THEN [ok |-> FALSE, status |-> 500]
  ELSE IF TokenUser(hdr) = NoUser THEN [ok |-> FALSE, status |-> 401]
  ELSE [ok |-> TRUE, user |-> TokenUser(hdr)]

\* the first lines of the earlier POST handler: a missing header is answered
\* 401; a rejected call and an authError both end in the catch block
EarlyVerify(hdr, prov) ==
  IF hdr = NoHeader THEN [ok |-> FALSE, status |-> 401]
  ELSE IF prov = "throw" THEN [ok |-> FALSE, status |-> 500]
  ELSE IF TokenUser(hdr) = NoUser THEN [ok |-> FALSE, status |-> 500]
  ELSE [ok |-> TRUE, user |-> TokenUser(hdr)]

\* ---------------------------------------------------------------- requests
Reqs == 1 .. MaxReq
Idle == [pc |-> "idle"]

\* What the request asked for, in the words of the interface: a body that is
\* no array, an array ("notArray"), an array with an element that is no
\* well-formed booking, or an array of well-formed bookings.  Recorded with the response; no handler
\* reads it.
WellFormed(event) ==
  /\ event # Null
  /\ event.title \notin {Undefined, EmptyStr}
  /\ IsDate(event.date)
  /\ IsTime(event.startTime)
  /\ IsTime(event.endTime)

Shape(body) ==
  IF \A i \in 1 .. Len(body) : WellFormed(body[i]) THEN "wellFormed"
  ELSE "illFormed"

\* resp is the HTTP response the callback now running has written, NoResp
\* when it has written none.  Node runs one callback at a time, so the next
\* step of any handler starts after Sent.  Besides status and payload, resp
\* records the request it answers.
NoResp == [kind |-> "none"]

PostResponse(status, saved, cred, user, shape, body, fault) ==
  [kind |-> "POST", status |-> status, itemsSaved |-> saved, cred |-> cred,
   user |-> user, shape |-> shape, body |-> body, fault |-> fault]

DeleteResponse(status, cred, user, id, existed, owner, fault) ==
  [kind |-> "DELETE", status |-> status, cred |-> cred, user |-> user,
   id |-> id, existed |-> existed, owner |-> owner, fault |-> fault]

GetResponse(status, items, lookup, fault) ==
  [kind |-> "GET", status |-> status, items |-> items, lookup |-> lookup,
   fault |-> fault]

\* the values Date.now() returns to the elements of one map(): the clock does
\* not go back, and may move on by a millisecond between two elements
Stamps(n) ==
  { [i \in 1 .. n |-> IF i <= k THEN now ELSE now + 1] :
      k \in (IF now < MaxClock /\ n > 0 THEN 1 .. n ELSE {n}) }

Init ==
  /\ rows = <<>>
  /\ now = 1
  /\ req = [r \in Reqs |-> Idle]
  /\ resp = NoResp

\* a millisecond passes
Tick ==
  /\ resp = NoResp
  /\ now < MaxClock
  /\ now' = now + 1
  /\ UNCHANGED <<rows, req, resp>>

\* The POST handler from Array.isArray to the call of upsert, for a request
\* the authentication let through as `user`.
PostBody(r, user) ==
  \/ \* !Array.isArray(req.body)
     /\ resp' = PostResponse(400, 0, "valid", user, "notArray", <<>>, FALSE)
     /\ UNCHANGED <<rows, now, req>>
  \/ \E body \in Arrays :
    IF Every(body) = "false"
    THEN /\ resp' = PostResponse(400, 0, "valid", user, Shape(body), <<>>, FALSE)
         /\ UNCHANGED <<rows, now, req>>
    ELSE IF Every(body) = "throws"
    THEN /\ resp' = PostResponse(500, 0, "valid", user, Shape(body), <<>>, FALSE)
         /\ UNCHANGED <<rows, now, req>>
    ELSE \E stamps \in Stamps(Len(body)) :
           /\ req' = [req EXCEPT ![r] =
                        [pc |-> "upsert", user |-> user, body |-> body,
                         data |-> SupabaseData(body, user, stamps)]]
           /\ now' = IF Len(body) > 0 THEN stamps[Len(body)] ELSE now
           /\ resp' = NoResp
           /\ UNCHANGED rows

\* app.post('/api/data', authenticate, ...) of server.js, up to its await
ServerPost(r) ==
  /\ resp = NoResp
  /\ req[r] = Idle
  /\ \E hdr \in Headers, prov \in Provider :
       LET a == authenticate(hdr, prov)
       IN IF a.ok
          THEN PostBody(r, a.user)
          ELSE /\ resp' = PostResponse(a.status, 0, Credentials(hdr, prov), NoUser,
                                       "unread", <<>>, FALSE)
               /\ UNCHANGED <<rows, now, req>>

\* app.post('/api/data', ...) of the earlier server, up to its second await
EarlyPost(r) ==
  /\ resp = NoResp
  /\ req[r] = Idle
  /\ \E hdr \in Headers, prov \in Provider :
       LET a == EarlyVerify(hdr, prov)
       IN IF a.ok
          THEN PostBody(r, a.user)
          ELSE /\ resp' = PostResponse(a.status, 0, Credentials(hdr, prov), NoUser,
                                       "unread", <<>>, FALSE)
               /\ UNCHANGED <<rows, now, req>>

\* The store applies the upsert of request r, or fails, and the handler
\* answers.  A batch that names one id twice is either refused by the store
\* or applied element by element.
PostUpsert(r) ==
  /\ resp = NoResp
  /\ req[r].pc = "upsert"
  /\ \E fault \in BOOLEAN, refuseDup \in BOOLEAN :
       LET q == req[r]
           error == fault \/ (refuseDup /\ HasDuplicateId(q.data))
       IN /\ rows' = IF error THEN rows ELSE Upsert(rows, q.data)
          /\ resp' = IF error
                     THEN PostResponse(500, 0, "valid", q.user, "wellFormed", q.body, fault)
                     ELSE PostResponse(200, Len(q.body), "valid", q.user, "wellFormed",
                                       q.body, fault)
  /\ req' = [req EXCEPT ![r] = Idle]
  /\ UNCHANGED now

\* app.delete('/api/data/:id', authenticate, ...) of server.js, up to its
\* first await
ServerDelete(r) ==
  /\ resp = NoResp
  /\ req[r] = Idle
  /\ \E hdr \in Headers, prov \in Provider, id \in Ids :
       LET a == authenticate(hdr, prov)
       IN IF a.ok
          THEN /\ req' = [req EXCEPT ![r] = [pc |-> "select", user |-> a.user, id |-> id]]
               /\ resp' = NoResp
          ELSE /\ resp' = DeleteResponse(a.status, Credentials(hdr, prov), NoUser, id,
                                         id \in DOMAIN rows, NoUser, FALSE)
               /\ UNCHANGED req
  /\ UNCHANGED <<rows, now>>

\* the store answers the ownership lookup of request r; the handler answers
\* 500, 404 or 403, or calls delete
ServerDeleteLookup(r) ==
  /\ resp = NoResp
  /\ req[r].pc = "select"
  /\ \E fault \in BOOLEAN :
       LET q == req[r]
           existed == q.id \in DOMAIN rows
           owner == IF existed THEN rows[q.id].user_id ELSE NoUser
           res == Single(rows, q.id, fault)
           answer(status) ==
             /\ resp' = DeleteResponse(status, "valid", q.user, q.id, existed, owner, fault)
             /\ req' = [req EXCEPT ![r] = Idle]
       IN IF res.error THEN answer(500)
          ELSE IF res.data = Null THEN answer(404)
          ELSE IF res.data.user_id # q.user THEN answer(403)
          ELSE /\ req' = [req EXCEPT ![r] = [pc |-> "delete", user |-> q.user, id |-> q.id]]
               /\ resp' = NoResp
  /\ UNCHANGED <<rows, now>>

\* the store applies the delete of request r, or fails, and the handler answers
ServerDeleteApply(r) ==
  /\ resp = NoResp
  /\ req[r].pc = "delete"
  /\ \E fault \in BOOLEAN :
       LET q == req[r]
       IN /\ rows' = IF fault THEN rows ELSE DeleteRow(rows, q.id)
          /\ resp' = DeleteResponse(IF fault THEN 500 ELSE 200, "valid", q.user, q.id,
                                    TRUE, q.user, fault)
  /\ req' = [req EXCEPT ![r] = Idle]
  /\ UNCHANGED now

\* app.delete('/api/data/:id', ...) of the earlier server: it reads neither
\* the Authorization header nor the row, and has one store call
EarlyDelete ==
  /\ resp = NoResp
  /\ \E hdr \in Headers, id \in Ids, fault \in BOOLEAN :
       LET existed == id \in DOMAIN rows
           owner == IF existed THEN rows[id].user_id ELSE NoUser
       IN /\ rows' = IF fault THEN rows ELSE DeleteRow(rows, id)
          /\ resp' = DeleteResponse(IF fault THEN 500 ELSE 200,
                                    Credentials(hdr, "resolve"), TokenUser(hdr), id,
                                    existed, owner, fault)
  /\ UNCHANGED <<now, req>>

\* Get as it would be without the try/catch around getUserById: a lookup that
\* throws ends in the handler's catch block
GetNoCatch ==
  /\ resp = NoResp
  /\ \E fault \in BOOLEAN :
       IF fault
       THEN resp' = GetResponse(500, <<>>, <<>>, TRUE)
       ELSE \E order \in Selections(rows) :
              LET userIds == {rows[i].user_id : i \in DOMAIN rows}
              IN \E outcome \in [userIds -> Lookup] :
                   resp' = IF \E u \in userIds : outcome[u] = "throws"
                           THEN GetResponse(500, <<>>, outcome, FALSE)
                           ELSE GetResponse(200,
                                  Transform(rows, order, UserEmails(userIds, outcome)),
                                  outcome, FALSE)
  /\ UNCHANGED <<rows, now, req>>

\* app.get('/api/data', ...), the same in both servers.  Its one store call is
\* the select; the lookups that follow go to the identity provider, and the
\* response is computed from what the select returned.
Get ==
  /\ resp = NoResp
  /\ \E fault \in BOOLEAN :
       IF fault
       THEN resp' = GetResponse(500, <<>>, <<>>, TRUE)
       ELSE \E order \in Selections(rows) :
              LET userIds == {rows[i].user_id : i \in DOMAIN rows}
              IN \E outcome \in [userIds -> Lookup] :
                   resp' = GetResponse(200,
                                       Transform(rows, order, UserEmails(userIds, outcome)),
                                       outcome, FALSE)
  /\ UNCHANGED <<rows, now, req>>

\* the callback that wrote a response returns
Sent ==
  /\ resp # NoResp
  /\ resp' = NoResp
  /\ UNCHANGED <<rows, now, req>>

\* server.js
Next ==
  \/ Tick
  \/ Sent
  \/ \E r \in Reqs : ServerPost(r)
  \/ \E r \in Reqs : PostUpsert(r)
  \/ \E r \in Reqs : ServerDelete(r)
  \/ \E r \in Reqs : ServerDeleteLookup(r)
  \/ \E r \in Reqs : ServerDeleteApply(r)
  \/ Get

Spec == Init /\ [][Next]_vars

\* the earlier server
NextEarly ==
  \/ Tick
  \/ Sent
  \/ EarlyDelete
  \/ \E r \in Reqs : EarlyPost(r)
  \/ \E r \in Reqs : PostUpsert(r)
  \/ Get

SpecEarly == Init /\ [][NextEarly]_vars

\* ================================================================ properties

\* the listings a GET can answer with in the current state
Listings ==
  LET userIds == {rows[i].user_id : i \in DOMAIN rows}
  IN { Transform(rows, order, UserEmails(userIds, outcome)) :
         order \in Selections(rows), outcome \in [userIds -> Lookup] }

\* item is the submitted booking b, owned by u
Lists(item, b, u) ==
  /\ item.title = b.title
  /\ item.date = b.date
  /\ item.startTime = b.startTime
  /\ item.endTime = b.endTime
  /\ item.userId = u
  /\ b.id # 0 => item.id = b.id

\* C1: a POST of an array of valid bookings by an authenticated user U, the
\* store not failing, answers 200 {success: true, itemsSaved: n}, and a GET
\* that follows it lists every submitted booking with userId U.
C1_PostThenGetListsAll ==
  (resp.kind = "POST" /\ resp.cred = "valid" /\ resp.shape = "wellFormed" /\ ~resp.fault)
    => /\ resp.status = 200
       /\ resp.itemsSaved = Len(resp.body)
       /\ \A listing \in Listings :
            \A i \in 1 .. Len(resp.body) :
              \E j \in 1 .. Len(listing) : Lists(listing[j], resp.body[i], resp.user)

\* C2: a POST by an authenticated user whose body is no array, or has an
\* element that is no well-formed booking (null included), answers 400 and
\* leaves the bookings table as it was.
C2_IllFormedAnswers400 ==
  [][(resp'.kind = "POST" /\ resp'.cred = "valid"
        /\ resp'.shape \in {"notArray", "illFormed"})
       => (resp'.status = 400 /\ rows' = rows)]_vars

\* C3: a POST or DELETE without a valid bearer token (no Authorization header,
\* a token the provider resolves to no user, a failing provider call) answers
\* 401 and changes no row.
C3_NoTokenAnswers401 ==
  [][(resp'.kind \in {"POST", "DELETE"} /\ resp'.cred # "valid")
       => (resp'.status = 401 /\ rows' = rows)]_vars

\* C4: a DELETE by an authenticated user of an existing booking that another
\* user owns answers 403 and changes no row.
C4_NonOwnerAnswers403 ==
  [][(resp'.kind = "DELETE" /\ resp'.cred = "valid" /\ ~resp'.fault
        /\ resp'.existed /\ resp'.owner # resp'.user)
       => (resp'.status = 403 /\ rows' = rows)]_vars

\* C5: a DELETE by an authenticated user of an id that has no row answers 404.
C5_AbsentAnswers404 ==
  (resp.kind = "DELETE" /\ resp.cred = "valid" /\ ~resp.fault /\ ~resp.existed)
    => resp.status = 404

\* C6: a GET answers with the bookings in ascending date order, and every
\* item's userName is the part of the owner's e-mail before the first '@', or
\* "Unknown" when the lookup of the owner gave an error, no user, or threw.
C6_SortedWithUserName ==
  (resp.kind = "GET" /\ resp.status = 200)
    => /\ \A i, j \in 1 .. Len(resp.items) :
            i < j => DateNum(resp.items[i].date) <= DateNum(resp.items[j].date)
       /\ \A i \in 1 .. Len(resp.items) :
            LET item == resp.items[i]
            IN item.userName = IF resp.lookup[item.userId] = "ok"
                               THEN LocalPart(Email(item.userId))
                               ELSE UnknownStr

\* C7: no request changes the owner of an existing booking.
C7_OwnerNeverChanges ==
  [][\A id \in DOMAIN rows \cap DOMAIN rows' :
       rows'[id].user_id = rows[id].user_id]_vars

\* C8: a GET answers 500 exactly when the read of the bookings failed;
\* otherwise it answers 200 with one item for every row, the items of an owner
\* whose lookup gave an error, no user, or threw carrying userEmail
\* "Unknown User", the items of the other owners their e-mail.
C8_LookupFailureIsSwallowed ==
  resp.kind = "GET"
    => /\ resp.status = IF resp.fault THEN 500 ELSE 200
       /\ ~resp.fault =>
            /\ Len(resp.items) = Cardinality(DOMAIN rows)
            /\ \A id \in DOMAIN rows :
                 \E i \in 1 .. Len(resp.items) :
                   LET item == resp.items[i]
                   IN /\ item.id = id
                      /\ item.title = rows[id].title
                      /\ item.date = rows[id].date
                      /\ item.startTime = rows[id].start_time
                      /\ item.endTime = rows[id].end_time
                      /\ item.userId = rows[id].user_id
                      /\ item.userEmail = IF resp.lookup[item.userId] = "ok"
                                          THEN Email(item.userId)
                                          ELSE UnknownUserStr

\* a GET that lists the bookings of two owners, the lookup of one of them
\* failing and the lookup of the other giving the user
C8_Witness ==
  /\ resp.kind = "GET"
  /\ resp.status = 200
  /\ \E i, j \in 1 .. Len(resp.items) :
       /\ resp.lookup[resp.items[i].userId] \in {"error", "throws"}
       /\ resp.items[i].userEmail = UnknownUserStr
       /\ resp.lookup[resp.items[j].userId] = "ok"
       /\ resp.items[j].userEmail = Email(resp.items[j].userId)

\* C9: a row leaves the table only in a step that answers a DELETE of the
\* user who owns the row when the delete is applied.
C9_OnlyOwnerDeletes ==
  [][\A id \in DOMAIN rows \ DOMAIN rows' :
       resp'.kind = "DELETE" /\ resp'.user = rows[id].user_id]_vars

\* request r carries one booking without an id and waits for its upsert
OneWithoutId(r) ==
  /\ req[r].pc = "upsert"
  /\ Len(req[r].body) = 1
  /\ req[r].body[1].id = 0

\* C10: ids made from the clock collide.  When the POST of one booking without
\* an id is answered 200, it is answered itemsSaved 1 and the row of its
\* generated id is that booking; if the id was taken, the table has no more
\* rows than before: the later upsert has replaced the earlier row.
C10_LaterUpsertReplaces ==
  [][\A r \in Reqs :
       (OneWithoutId(r) /\ req'[r] = Idle /\ resp'.status = 200)
         => /\ resp'.itemsSaved = 1
            /\ rows'[req[r].data[1].id] = req[r].data[1].row
            /\ req[r].data[1].id \in DOMAIN rows => DOMAIN rows' = DOMAIN rows]_vars

\* two concurrent POSTs of one booking without an id each, mapped in the same
\* millisecond: the first has just been answered 200 {itemsSaved: 1} and its
\* row is in the table; the second, a different booking under the same
\* generated id, waits for its upsert
C10_Witness ==
  /\ resp.kind = "POST"
  /\ resp.status = 200
  /\ resp.itemsSaved = 1
  /\ Len(resp.body) = 1
  /\ resp.body[1].id = 0
  /\ \E r \in Reqs :
       /\ OneWithoutId(r)
       /\ req[r].body # resp.body
       /\ req[r].data[1].id \in DOMAIN rows
       /\ rows[req[r].data[1].id].title = resp.body[1].title
       /\ rows[req[r].data[1].id].user_id = resp.user

====
